---- MODULE Spec2Model ----
(***************************************************************************)
(* A model of jira_zulip_bridge/main.py: the ZulipJiraBot polling bridge.  *)
(* One polling pass (process_latest) is modelled with its position in the   *)
(* loops over issues, comments and changelog entries; every handler call    *)
(* (send_comment_event, send_ticket_change_event, send_new_ticket) is one   *)
(* step, with the calls it makes (_send_message, maybe_set_in_progress)     *)
(* included.                                                                *)
(***************************************************************************)
EXTENDS Integers, Sequences, FiniteSets, TLC

(***************************************************************************)
(* Program constants.                                                       *)
(***************************************************************************)
DESCRIPTION_LIMIT == 10000
OLD_MESSAGES_LOOKBACK == 100
JIRA_API_LOOKBACK_MINUTES == 1000
CHANGE_IGNORED_FIELDS == {"WorklogId", "timespent", "RemoteIssueLink", "timeestimate"}
CHANGE_LOOKBACK_SECONDS == JIRA_API_LOOKBACK_MINUTES * 60
SecondsPerDay == 24 * 60 * 60

(***************************************************************************)
(* Bounds of the model.                                                     *)
(***************************************************************************)
MaxFetched == 2       \* issue documents the search replies of one run hold in all
MaxHistory == 1       \* messages in the chat history at startup

(***************************************************************************)
(* Text.  A text is a sequence of tokens; a token is either ordinary text  *)
(* or one occurrence of the pattern "event_id: <digits>".                   *)
(***************************************************************************)
Txt == [marker |-> FALSE, id |-> 0]
Marker(n) == [marker |-> TRUE, id |-> n]
Plain == <<Txt>>

\* Python None for optional strings.
None == "None"

\* A JSON description: null, or a text.
NullText == [null |-> TRUE, text |-> <<>>]
Text(t) == [null |-> FALSE, text |-> t]

\* Timestamps as the tracker sends them: a well-formed stamp carries its
\* instant in seconds; a malformed one does not parse.
Stamp(t) == [wellformed |-> TRUE, secs |-> t]
BadStamp == [wellformed |-> FALSE, secs |-> 0]

(***************************************************************************)
(* Issue keys.  All keys of the project share the prefix "ARROW-"; a key   *)
(* is modelled by the characters after the prefix, as a sequence of        *)
(* digits.  Python compares strings character by character.                *)
(***************************************************************************)
RECURSIVE StrGreater(_, _)
StrGreater(a, b) ==
    IF a = <<>> THEN FALSE
    ELSE IF b = <<>> THEN TRUE
    ELSE IF Head(a) # Head(b) THEN Head(a) > Head(b)
    ELSE StrGreater(Tail(a), Tail(b))

InitialTicket == <<0, 0, 0, 0, 0>>

(***************************************************************************)
(* The tracker's documents the model draws fetch results from.  Ids are    *)
(* unique across issues, comments and changelog entries.                   *)
(***************************************************************************)
PRLabel == "pull-request-available"
ContainsPRLabel(s) == s \in {PRLabel}

Item(f, from, to) == [field |-> f, fromString |-> from, toString |-> to]

Comment(id, created, updated, body) ==
    [id |-> id, author |-> "Carol", created |-> created, updated |-> updated,
     body |-> body]

Entry(id, created, items) ==
    [id |-> id, author |-> "Dave", created |-> created, items |-> items]

\* A comment posted at instant 0 and never edited.
c11 == Comment(11, Stamp(0), Stamp(0), Plain)
\* An edited comment whose body quotes the footer of another message.
c12 == Comment(12, Stamp(0), Stamp(30000), <<Txt, Marker(11)>>)

\* only bookkeeping fields: every item is in the ignore-set.
h22 == Entry(22, Stamp(0),
             <<Item("timespent", "30", "60"), Item("WorklogId", None, "7")>>)
\* the status changes, time is logged, the pull-request label is set, the
\* resolution and the assignee are cleared and the labels are removed.
h23 == Entry(23, Stamp(0),
             <<Item("status", "Open", "In Progress"), Item("timespent", None, "30"),
               Item("labels", None, PRLabel), Item("resolution", "Fixed", None),
               Item("assignee", "Bob", ""), Item("labels", PRLabel, None)>>)
\* a changelog entry whose timestamp does not parse.
h24 == Entry(24, BadStamp, <<Item("status", "Open", "Closed")>>)

\* The reply of the comment endpoint for an issue, and a failed request.
CommentsReply(cs) == [raised |-> FALSE, json |-> [comments |-> cs]]
RequestFailed == [raised |-> TRUE, json |-> [issues |-> <<>>]]

\* An issue document of the search reply, with what the comment endpoint
\* answers for its key during the pass.
Issue(id, key, summary, description, assignee, histories, comment_fetch) ==
    [id |-> id, key |-> key,
     fields |-> [summary |-> summary, creator |-> "Alice",
                 description |-> description, assignee |-> assignee],
     changelog |-> [histories |-> histories],
     comment_fetch |-> comment_fetch]

\* "absent": the fields object has no assignee member.
Absent == "absent"

Issues ==
    { Issue(100, <<5>>, Plain, Text(Plain), Absent, <<>>, CommentsReply(<<c11, c12>>)),
      Issue(101, <<3>>, Plain, NullText, Absent, <<>>, CommentsReply(<<>>)),
      Issue(102, <<9>>, Plain, Text(<<Txt, Marker(100)>>), "Bob", <<>>, CommentsReply(<<>>)),
      Issue(103, <<1, 0>>, Plain, Text(Plain), Absent, <<h22, h23, h24>>,
            CommentsReply(<<>>)),
      Issue(102, <<9>>, Plain, Text(<<Txt, Marker(100)>>), "Bob", <<>>, RequestFailed) }

EventIds == {100, 101, 102, 103, 11, 12, 22, 23, 24}

RECURSIVE SeqsUpTo(_, _)
SeqsUpTo(S, n) ==
    IF n = 0 THEN {<<>>}
    ELSE LET shorter == SeqsUpTo(S, n - 1)
         IN shorter \cup {Append(s, x) : s \in shorter, x \in S}

\* What the search request can produce in a pass: a failure, or a reply
\* listing up to n issues, in any order, repetitions included.
SearchOutcomes(n) ==
    {RequestFailed} \cup
    {[raised |-> FALSE, json |-> [issues |-> s]] : s \in SeqsUpTo(Issues, n)}

\* The instants the clock is read at.
Instants == {59999, 60001, 86500}

(***************************************************************************)
(* Pure functions of the program.                                           *)
(***************************************************************************)
NoException == "none"

\* _parse_jira_timestamp: strptime raises ValueError on a malformed stamp.
_parse_jira_timestamp(stamp) ==
    IF stamp.wellformed THEN [raised |-> NoException, when |-> stamp.secs]
    ELSE [raised |-> "ValueError", when |-> 0]

\* now - when, as Python's timedelta holds it: whole days and the seconds
\* left over, 0 <= seconds < one day.
timedelta(now_, when) ==
    [days |-> (now_ - when) \div SecondsPerDay, seconds |-> (now_ - when) % SecondsPerDay]

\* A variant that reads the timedelta's seconds field, which leaves the
\* whole days out.
total_seconds_without_days(td) == td.seconds

total_seconds(td) == td.days * SecondsPerDay + td.seconds

\* A variant in which every well-formed stamp is recent.
_is_recent_event_always(now_, event_timestamp) ==
    LET parsed == _parse_jira_timestamp(event_timestamp)
    IN [raised |-> parsed.raised, value |-> parsed.raised = NoException]

_is_recent_event(now_, event_timestamp) ==
    LET parsed == _parse_jira_timestamp(event_timestamp)
    IN IF parsed.raised # NoException
       THEN [raised |-> parsed.raised, value |-> FALSE]
       ELSE [raised |-> NoException,
             value |-> total_seconds(timedelta(now_, parsed.when)) < CHANGE_LOOKBACK_SECONDS]

\* _make_jira_request: any exception of the request is replaced by the
\* reply {'issues': []}.
_make_jira_request(outcome) ==
    IF outcome.raised THEN [issues |-> <<>>] ELSE outcome.json

\* re.findall(r'event_id: ([\d]+)', content): the ids of the occurrences of
\* the pattern, in order.
RECURSIVE findall(_)
findall(content) ==
    IF content = <<>> THEN <<>>
    ELSE IF Head(content).marker THEN <<Head(content).id>> \o findall(Tail(content))
    ELSE findall(Tail(content))

\* A variant that leaves the key out of the topic.
PrefixedTitle_without_key(key, title) == [key |-> <<>>, title |-> title]

\* '{}: {}'.format(key, title)
PrefixedTitle(key, title) == [key |-> key, title |-> title]

\* _issue_markdown_link(title, key): the title between brackets, then the URL.
_issue_markdown_link(prefixed_title, key) == <<Txt>> \o prefixed_title.title \o <<Txt>>

\* desc[:DESCRIPTION_LIMIT] + "..." when the description is longer.
Truncated(desc) ==
    IF Len(desc) > DESCRIPTION_LIMIT
    THEN SubSeq(desc, 1, DESCRIPTION_LIMIT) \o <<Txt>>
    ELSE desc

field_defaults(field) ==
    CASE field = "resolution" -> "Unresolved"
      [] field = "labels" -> "(no labels)"
      [] OTHER -> "(empty)"

\* A variant that knows no default of a field.
ResolvedTo_without_defaults(item) ==
    IF item.toString \in {None, ""} THEN "(empty)" ELSE item.toString

\* to_string or field_defaults.get(field, "(empty)")
ResolvedTo(item) ==
    IF item.toString \in {None, ""} THEN field_defaults(item.field) ELSE item.toString

\* One rendered line of a change: '* Changed F to **T**' when fmt = "to",
\* '* Changed F from **S** to **T**' when fmt = "from_to".
Line(item) ==
    IF item.fromString = None
    THEN [fmt |-> "to", field |-> item.field, from |-> None, to |-> ResolvedTo(item)]
    ELSE [fmt |-> "from_to", field |-> item.field, from |-> item.fromString,
          to |-> ResolvedTo(item)]

\* A variant that treats the pull-request label as a signal only: the item
\* triggers maybe_set_in_progress and is not rendered.
RECURSIVE ProjectItems_label_not_rendered(_, _, _, _)
ProjectItems_label_not_rendered(items, side_outcome, lines, calls) ==
    IF items = <<>> THEN [lines |-> lines, side |-> calls, raised |-> NoException]
    ELSE LET item == Head(items)
         IN IF item.field \in CHANGE_IGNORED_FIELDS
            THEN ProjectItems_label_not_rendered(Tail(items), side_outcome, lines, calls)
            ELSE IF item.field = "labels" /\ ContainsPRLabel(ResolvedTo(item))
            THEN IF side_outcome = "raise"
                 THEN [lines |-> lines, side |-> calls + 1, raised |-> "JIRAError"]
                 ELSE ProjectItems_label_not_rendered(Tail(items), side_outcome, lines,
                                                      calls + 1)
            ELSE ProjectItems_label_not_rendered(Tail(items), side_outcome,
                                                 Append(lines, Line(item)), calls)

\* The loop over change['items'] (lines 237-260).  side_outcome is what
\* maybe_set_in_progress does when called: "ok" or "raise".  The result
\* holds the lines built, the number of calls of maybe_set_in_progress and
\* the exception that ended the loop, if any.
RECURSIVE ProjectItems(_, _, _, _)
ProjectItems(items, side_outcome, lines, calls) ==
    IF items = <<>> THEN [lines |-> lines, side |-> calls, raised |-> NoException]
    ELSE LET item == Head(items)
         IN IF item.field \in CHANGE_IGNORED_FIELDS
            THEN ProjectItems(Tail(items), side_outcome, lines, calls)
            ELSE IF item.field = "labels" /\ ContainsPRLabel(ResolvedTo(item))
            THEN IF side_outcome = "raise"
                 THEN [lines |-> lines, side |-> calls + 1, raised |-> "JIRAError"]
                 ELSE ProjectItems(Tail(items), side_outcome,
                                   Append(lines, Line(item)), calls + 1)
            ELSE ProjectItems(Tail(items), side_outcome, Append(lines, Line(item)), calls)

(***************************************************************************)
(* The handlers.  Each returns what the call leaves behind: the dedup set  *)
(* (prior_event_ids), the requests handed to client.send_message with      *)
(* their outcome, the change lines built, the number of calls of           *)
(* maybe_set_in_progress, and the exception that left the call, if any.    *)
(* A send outcome is "success", "error" (send_message returns an error     *)
(* result) or "raise" (send_message raises); the message reaches the       *)
(* stream on "success" only.                                                *)
(***************************************************************************)
SendOutcomes == {"success", "error", "raise"}
SideOutcomes == {"ok", "raise"}

Returned(prior, sends, lines, side, raised) ==
    [prior |-> prior, sends |-> sends, lines |-> lines, side |-> side, raised |-> raised]

Request(event_id, topic, content, outcome) ==
    [event_id |-> event_id, topic |-> topic, content |-> content, outcome |-> outcome]

\* A variant that never records the id of what it sent.
_send_message_unrecorded(prior, event_id, topic, content, outcome) ==
    IF event_id \in prior THEN Returned(prior, <<>>, <<>>, 0, NoException)
    ELSE Returned(prior, <<Request(event_id, topic, content, outcome)>>, <<>>, 0,
                  IF outcome = "raise" THEN "SendError" ELSE NoException)

\* A variant that records the id only when send_message reports success.
_send_message_checked(prior, event_id, topic, content, outcome) ==
    IF event_id \in prior THEN Returned(prior, <<>>, <<>>, 0, NoException)
    ELSE IF outcome = "raise"
    THEN Returned(prior, <<Request(event_id, topic, content, outcome)>>, <<>>, 0, "SendError")
    ELSE Returned(IF outcome = "success" THEN prior \cup {event_id} ELSE prior,
                  <<Request(event_id, topic, content, outcome)>>, <<>>, 0, NoException)

\* A variant that keeps only the id of the last message sent.
_send_message_forgetful(prior, event_id, topic, content, outcome) ==
    IF event_id \in prior THEN Returned(prior, <<>>, <<>>, 0, NoException)
    ELSE IF outcome = "raise"
    THEN Returned(prior, <<Request(event_id, topic, content, outcome)>>, <<>>, 0, "SendError")
    ELSE Returned({event_id},
                  <<Request(event_id, topic, content, outcome)>>, <<>>, 0, NoException)

\* _send_message (lines 124-140): the id is added after send_message
\* returns, whatever it returns; an exception of send_message leaves first.
_send_message(prior, event_id, topic, content, outcome) ==
    IF event_id \in prior THEN Returned(prior, <<>>, <<>>, 0, NoException)
    ELSE IF outcome = "raise"
    THEN Returned(prior, <<Request(event_id, topic, content, outcome)>>, <<>>, 0, "SendError")
    ELSE Returned(prior \cup {event_id},
                  <<Request(event_id, topic, content, outcome)>>, <<>>, 0, NoException)

\* send_comment_event (lines 273-302)
send_comment_event(prior, issue, comment, outcome) ==
    IF comment.id \in prior THEN Returned(prior, <<>>, <<>>, 0, NoException)
    ELSE LET prefixed_title == PrefixedTitle(issue.key, issue.fields.summary)
             action == IF comment.updated # comment.created
                       THEN "updated comment" ELSE "posted new comment"
             content == <<Txt>> \o _issue_markdown_link(prefixed_title, issue.key)
                        \o <<Txt>> \o comment.body \o <<Marker(comment.id)>>
         IN _send_message(prior, comment.id, prefixed_title, content, outcome)

\* A variant that drops an empty change without recording its id.
send_ticket_change_event_unmarked(prior, issue, change, side_outcome, outcome) ==
    IF change.id \in prior THEN Returned(prior, <<>>, <<>>, 0, NoException)
    ELSE LET prefixed_title == PrefixedTitle(issue.key, issue.fields.summary)
             projected == ProjectItems(change.items, side_outcome, <<>>, 0)
             content == <<Txt>> \o _issue_markdown_link(prefixed_title, issue.key)
                        \o [k \in 1..Len(projected.lines) |-> Txt]
                        \o <<Marker(change.id)>>
         IN IF projected.raised # NoException
            THEN Returned(prior, <<>>, projected.lines, projected.side, projected.raised)
            ELSE IF Len(projected.lines) = 0
            THEN Returned(prior, <<>>, <<>>, projected.side, NoException)
            ELSE LET sent == _send_message(prior, change.id, prefixed_title, content, outcome)
                 IN Returned(sent.prior, sent.sends, projected.lines, projected.side,
                             sent.raised)

\* A variant that looks the id up in the dedup set only after the loop
\* over the items.
send_ticket_change_event_late_lookup(prior, issue, change, side_outcome, outcome) ==
    LET prefixed_title == PrefixedTitle(issue.key, issue.fields.summary)
        projected == ProjectItems(change.items, side_outcome, <<>>, 0)
        content == <<Txt>> \o _issue_markdown_link(prefixed_title, issue.key)
                   \o [k \in 1..Len(projected.lines) |-> Txt]
                   \o <<Marker(change.id)>>
    IN IF projected.raised # NoException
       THEN Returned(prior, <<>>, projected.lines, projected.side, projected.raised)
       ELSE IF change.id \in prior
       THEN Returned(prior, <<>>, <<>>, projected.side, NoException)
       ELSE IF Len(projected.lines) = 0
       THEN Returned(prior \cup {change.id}, <<>>, <<>>, projected.side, NoException)
       ELSE LET sent == _send_message(prior, change.id, prefixed_title, content, outcome)
            IN Returned(sent.prior, sent.sends, projected.lines, projected.side,
                        sent.raised)

\* send_ticket_change_event (lines 213-271)
send_ticket_change_event(prior, issue, change, side_outcome, outcome) ==
    IF change.id \in prior THEN Returned(prior, <<>>, <<>>, 0, NoException)
    ELSE LET prefixed_title == PrefixedTitle(issue.key, issue.fields.summary)
             projected == ProjectItems(change.items, side_outcome, <<>>, 0)
             content == <<Txt>> \o _issue_markdown_link(prefixed_title, issue.key)
                        \o [k \in 1..Len(projected.lines) |-> Txt]
                        \o <<Marker(change.id)>>
         IN IF projected.raised # NoException
            THEN Returned(prior, <<>>, projected.lines, projected.side, projected.raised)
            ELSE IF Len(projected.lines) = 0
            THEN Returned(prior \cup {change.id}, <<>>, <<>>, projected.side, NoException)
            ELSE LET sent == _send_message(prior, change.id, prefixed_title, content, outcome)
                 IN Returned(sent.prior, sent.sends, projected.lines, projected.side,
                             sent.raised)

\* send_new_ticket (lines 178-211).  fields['assignee']['displayName']
\* raises TypeError when the assignee is present and null, and len(desc)
\* raises TypeError when the description is null.  The author and the
\* assignee are ordinary text of the content.
send_new_ticket(prior, issue, outcome) ==
    IF issue.id \in prior THEN Returned(prior, <<>>, <<>>, 0, NoException)
    ELSE LET fields == issue.fields
             desc == fields.description
             prefixed_title == PrefixedTitle(issue.key, fields.summary)
             content == <<Txt>> \o _issue_markdown_link(prefixed_title, issue.key)
                        \o <<Txt>> \o Truncated(desc.text) \o <<Marker(issue.id)>>
         IN IF fields.assignee # Absent /\ fields.assignee = None
            THEN Returned(prior, <<>>, <<>>, 0, "TypeError")
            ELSE IF desc.null THEN Returned(prior, <<>>, <<>>, 0, "TypeError")
            ELSE _send_message(prior, issue.id, prefixed_title, content, outcome)

(***************************************************************************)
(* Startup: the chat history the bot finds, and _get_recent_messages.      *)
(***************************************************************************)
ContentOf(returned) == returned.sends[1].content

\* Bodies of messages the bot sent to the stream in an earlier run: for
\* comment 12 of issue 100 and for changelog entry 23 of issue 103, and a
\* message of a version that wrote no footer.
HistoryMessages ==
    { ContentOf(send_comment_event({}, x, c12, "success")) : x \in {y \in Issues : y.id = 100} }
    \cup { ContentOf(send_ticket_change_event({}, x, h23, "ok", "success")) :
           x \in {y \in Issues : y.id = 103} }
    \cup { Plain }

\* The last num_before messages of the stream.
get_messages(stream, num_before) ==
    SubSeq(stream, IF Len(stream) > num_before THEN Len(stream) - num_before + 1 ELSE 1,
           Len(stream))

\* _get_recent_messages (lines 98-117): an id is recovered from a message
\* only when the pattern occurs exactly once in it.
RECURSIVE _get_recent_messages(_, _)
_get_recent_messages(messages, prior) ==
    IF messages = <<>> THEN prior
    ELSE LET m == findall(Head(messages))
         IN _get_recent_messages(Tail(messages),
                IF Len(m) = 1 THEN prior \cup {m[1]} ELSE prior)

(***************************************************************************)
(* State.                                                                   *)
(***************************************************************************)
VARIABLES
    prior_event_ids,   \* self.prior_event_ids
    last_new_ticket,   \* self.last_new_ticket
    now,               \* the clock, in seconds
    fetched,           \* what the search request of the current pass produced
    pc,                \* position in the polling loop
    i,                 \* index of the current issue in events['issues']
    j,                 \* index of the current comment or changelog entry
    exception,         \* the exception that ended the last pass, if any
    history,           \* the stream's messages at startup
    delivered,         \* per event id, messages delivered to chat in this run
    attempts,          \* per event id, calls of client.send_message in this run
    side_calls,        \* change ids maybe_set_in_progress was called for
    fetched_count,     \* issue documents fetched so far
    pass_sends,        \* calls of client.send_message in the current pass
    pass_changed,      \* the current pass changed the dedup set, the mark or the stream
    repeat,            \* the tracker answers this pass's search as the previous one's
    prev_clean,        \* the previous pass ended without an exception
    last               \* what the last step of the pass did

vars == <<prior_event_ids, last_new_ticket, now, fetched, pc, i, j, exception, history,
          delivered, attempts, side_calls, fetched_count, pass_sends, pass_changed, repeat,
          prev_clean, last>>

events == _make_jira_request(fetched)
issue == events.issues[i]
issue_comments == _make_jira_request(issue.comment_fetch)

Did(op, id, recent, seen, emitted, returned) ==
    [op |-> op, id |-> id, recent |-> recent, seen |-> seen, emitted |-> emitted,
     sends |-> returned.sends, lines |-> returned.lines, side |-> returned.side,
     raised |-> returned.raised]

Nothing == Returned({}, <<>>, <<>>, 0, NoException)

Init ==
    /\ history \in SeqsUpTo(HistoryMessages, MaxHistory)
    /\ prior_event_ids = _get_recent_messages(get_messages(history, OLD_MESSAGES_LOOKBACK), {})
    /\ last_new_ticket = InitialTicket
    /\ now = 59999
    /\ fetched = RequestFailed
    /\ pc = "sleep"
    /\ i = 0
    /\ j = 0
    /\ exception = NoException
    /\ delivered = [e \in EventIds |-> 0]
    /\ attempts = [e \in EventIds |-> 0]
    /\ side_calls = {}
    /\ fetched_count = 0
    /\ pass_sends = 0
    /\ pass_changed = FALSE
    /\ repeat = FALSE
    /\ prev_clean = TRUE
    /\ last = Did("start", 0, "n/a", FALSE, FALSE, Nothing)

(***************************************************************************)
(* The bodies of the loops of process_latest.                               *)
(***************************************************************************)
Recency(recent) ==
    IF recent.raised # NoException THEN "malformed"
    ELSE IF recent.value THEN "yes" ELSE "no"

\* Lines 152-155: one comment of the current issue.
CommentIteration(prior, now_, issue_, comment, outcome) ==
    LET recent == _is_recent_event(now_, comment.updated)
    IN IF recent.raised # NoException
       THEN [recent |-> Recency(recent),
             returned |-> Returned(prior, <<>>, <<>>, 0, recent.raised)]
       ELSE IF ~recent.value
       THEN [recent |-> Recency(recent),
             returned |-> Returned(prior, <<>>, <<>>, 0, NoException)]
       ELSE [recent |-> Recency(recent),
             returned |-> send_comment_event(prior, issue_, comment, outcome)]

\* Lines 157-160: one changelog entry of the current issue.
ChangeIteration(prior, now_, issue_, entry, side_outcome, outcome) ==
    LET recent == _is_recent_event(now_, entry.created)
    IN IF recent.raised # NoException
       THEN [recent |-> Recency(recent),
             returned |-> Returned(prior, <<>>, <<>>, 0, recent.raised)]
       ELSE IF ~recent.value
       THEN [recent |-> Recency(recent),
             returned |-> Returned(prior, <<>>, <<>>, 0, NoException)]
       ELSE [recent |-> Recency(recent),
             returned |-> send_ticket_change_event(prior, issue_, entry, side_outcome,
                                                   outcome)]

\* A variant that compares the keys for inequality.
NewTicketCheck_unequal(prior, mark, issue_, outcome) ==
    IF Len(issue_.changelog.histories) = 0 /\ issue_.key # mark
    THEN [mark |-> issue_.key, emitted |-> TRUE,
          returned |-> send_new_ticket(prior, issue_, outcome)]
    ELSE [mark |-> mark, emitted |-> FALSE,
          returned |-> Returned(prior, <<>>, <<>>, 0, NoException)]

\* A variant that moves the mark only once the ticket's id is recorded.
NewTicketCheck_after_send(prior, mark, issue_, outcome) ==
    IF Len(issue_.changelog.histories) = 0 /\ StrGreater(issue_.key, mark)
    THEN LET returned == send_new_ticket(prior, issue_, outcome)
         IN [mark |-> IF issue_.id \in returned.prior THEN issue_.key ELSE mark,
             emitted |-> TRUE, returned |-> returned]
    ELSE [mark |-> mark, emitted |-> FALSE,
          returned |-> Returned(prior, <<>>, <<>>, 0, NoException)]

\* Lines 162-166: the check for a newly created issue.  The mark moves
\* before send_new_ticket is called.
NewTicketCheck(prior, mark, issue_, outcome) ==
    IF Len(issue_.changelog.histories) = 0 /\ StrGreater(issue_.key, mark)
    THEN [mark |-> issue_.key, emitted |-> TRUE,
          returned |-> send_new_ticket(prior, issue_, outcome)]
    ELSE [mark |-> mark, emitted |-> FALSE,
          returned |-> Returned(prior, <<>>, <<>>, 0, NoException)]

(***************************************************************************)
(* Positions of the pass.                                                   *)
(***************************************************************************)
At(p, i_, j_) == [pc |-> p, i |-> i_, j |-> j_]

\* process_latest has returned, or an exception has left it.
Done == At("done", 0, 0)

\* After the comments of issue i_: its changelog, or the new-issue check.
AfterComments(i_) ==
    IF Len(events.issues[i_].changelog.histories) > 0 THEN At("changes", i_, 1)
    ELSE At("new_ticket", i_, 0)

\* After the new-issue check of issue i_: the next issue, or the pass ends.
AfterIssue(i_) ==
    IF i_ < Len(events.issues) THEN At("get_comments", i_ + 1, 0) ELSE Done

Bump(counts, sends, wanted) ==
    [e \in EventIds |->
        counts[e] + Cardinality({k \in DOMAIN sends :
                                    sends[k].event_id = e /\ sends[k].outcome \in wanted})]

\* The effect of one step of the pass: an exception leaves process_latest
\* and is caught by the polling loop (lines 327-330).
Step(did, prior, mark, next) ==
    /\ prior_event_ids' = prior
    /\ last_new_ticket' = mark
    /\ delivered' = Bump(delivered, did.sends, {"success"})
    /\ attempts' = Bump(attempts, did.sends, SendOutcomes)
    /\ pass_sends' = pass_sends + Len(did.sends)
    /\ pass_changed' = \/ pass_changed
                       \/ prior # prior_event_ids
                       \/ mark # last_new_ticket
                       \/ \E k \in DOMAIN did.sends : did.sends[k].outcome = "success"
    /\ side_calls' = IF did.side > 0 THEN side_calls \cup {did.id} ELSE side_calls
    /\ last' = did
    /\ exception' = did.raised
    /\ LET to == IF did.raised # NoException THEN Done ELSE next
       IN pc' = to.pc /\ i' = to.i /\ j' = to.j
    /\ UNCHANGED <<now, fetched, history, fetched_count, repeat, prev_clean>>

(***************************************************************************)
(* Actions.                                                                 *)
(***************************************************************************)
\* The polling loop starts a pass: process_latest, line 148.
ProcessLatest ==
    /\ pc = "sleep"
    /\ \E outcome \in (IF repeat THEN {fetched}
                        ELSE SearchOutcomes(MaxFetched - fetched_count)) :
         /\ fetched' = outcome
         /\ fetched_count' = fetched_count + Len(_make_jira_request(outcome).issues)
         /\ last' = Did("fetch", 0, "n/a", FALSE, FALSE, Nothing)
         /\ LET to == IF Len(_make_jira_request(outcome).issues) > 0
                      THEN At("get_comments", 1, 0) ELSE Done
            IN pc' = to.pc /\ i' = to.i /\ j' = to.j
    /\ UNCHANGED <<prior_event_ids, last_new_ticket, now, exception, history, delivered,
                   attempts, side_calls, pass_sends, pass_changed, repeat, prev_clean>>

\* Line 151, and line 152's issue_comments['comments'], which raises
\* KeyError on the reply _make_jira_request makes up after a failure.
GetIssueComments ==
    /\ pc = "get_comments"
    /\ IF "comments" \in DOMAIN issue_comments
       THEN Step(Did("get_comments", 0, "n/a", FALSE, FALSE, Nothing),
                 prior_event_ids, last_new_ticket,
                 IF Len(issue_comments.comments) > 0 THEN At("comments", i, 1)
                 ELSE AfterComments(i))
       ELSE Step(Did("get_comments", 0, "n/a", FALSE, FALSE,
                     Returned({}, <<>>, <<>>, 0, "KeyError")),
                 prior_event_ids, last_new_ticket, Done)

\* Lines 152-155 for comment j of issue i.
CommentStep ==
    /\ pc = "comments"
    /\ \E outcome \in SendOutcomes :
         LET comment == issue_comments.comments[j]
             done == CommentIteration(prior_event_ids, now, issue, comment, outcome)
         IN Step(Did("comment", comment.id, done.recent, comment.id \in prior_event_ids,
                     FALSE, done.returned),
                 done.returned.prior, last_new_ticket,
                 IF j < Len(issue_comments.comments) THEN At("comments", i, j + 1)
                 ELSE AfterComments(i))

\* Lines 157-160 for changelog entry j of issue i.
ChangeStep ==
    /\ pc = "changes"
    /\ \E outcome \in SendOutcomes, side_outcome \in SideOutcomes :
         LET entry == issue.changelog.histories[j]
             done == ChangeIteration(prior_event_ids, now, issue, entry, side_outcome,
                                     outcome)
         IN Step(Did("change", entry.id, done.recent, entry.id \in prior_event_ids,
                     FALSE, done.returned),
                 done.returned.prior, last_new_ticket,
                 IF j < Len(issue.changelog.histories) THEN At("changes", i, j + 1)
                 ELSE At("new_ticket", i, 0))

\* Lines 162-166 for issue i.
NewTicketStep ==
    /\ pc = "new_ticket"
    /\ \E outcome \in SendOutcomes :
         LET done == NewTicketCheck(prior_event_ids, last_new_ticket, issue, outcome)
         IN Step(Did("new_ticket", issue.id, "n/a", issue.id \in prior_event_ids,
                     done.emitted, done.returned),
                 done.returned.prior, done.mark, AfterIssue(i))

\* Lines 323-332: the pass is over, by return or by a caught exception;
\* the loop sleeps, and time passes.  Whether the tracker will answer the
\* next search as it answered this one is decided here.
Sleep ==
    /\ pc = "done"
    /\ pc' = "sleep"
    /\ \E t \in Instants : t >= now /\ now' = t
    /\ \E again \in {FALSE} \cup {Len(events.issues) <= MaxFetched - fetched_count} :
         /\ repeat' = again
         /\ fetched' = IF again THEN fetched ELSE RequestFailed
    /\ prev_clean' = (exception = NoException)
    /\ exception' = NoException
    /\ pass_sends' = 0
    /\ pass_changed' = FALSE
    /\ last' = Did("sleep", 0, "n/a", FALSE, FALSE, Nothing)
    /\ UNCHANGED <<prior_event_ids, last_new_ticket, i, j, history, delivered,
                   attempts, side_calls, fetched_count>>

Next ==
    \/ ProcessLatest
    \/ GetIssueComments
    \/ CommentStep
    \/ ChangeStep
    \/ NewTicketStep
    \/ Sleep

Spec == Init /\ [][Next]_vars

\* The loop of lines 323-332 never ends: after every pass it sleeps and
\* starts the next one.
FairSpec == Spec /\ WF_vars(Next)

(***************************************************************************)
(* Properties.                                                              *)
(***************************************************************************)
Entries == {h22, h23, h24}
IssueIds == {x.id : x \in Issues}
Handled == {"comment", "change", "new_ticket"}

\* The items of a change that the ignore-set does not drop.
Retained(items) == SelectSeq(items, LAMBDA item : item.field \notin CHANGE_IGNORED_FIELDS)

\* The timestamp of the comment or changelog entry the pass is about to
\* handle, and the time elapsed since.
CurrentStamp ==
    IF pc = "comments" THEN issue_comments.comments[j].updated
    ELSE issue.changelog.histories[j].created
CurrentId ==
    IF pc = "comments" THEN issue_comments.comments[j].id
    ELSE issue.changelog.histories[j].id
OutsideWindow ==
    /\ pc \in {"comments", "changes"}
    /\ CurrentStamp.wellformed
    /\ now - CurrentStamp.secs >= CHANGE_LOOKBACK_SECONDS

\* C1: at most one message carrying a given event id is delivered to chat
\* in one run of the process, whatever the passes fetch and however often
\* the same issue, comment or changelog entry comes back.
C1_AtMostOnceDelivery == \A e \in EventIds : delivered[e] <= 1

\* An event that was delivered is fetched again and is skipped.
C1_Witness ==
    /\ last.op \in Handled
    /\ last.seen
    /\ last.sends = <<>>
    /\ delivered[last.id] = 1

\* C2: a dispatch that fails (send_message reports an error or raises)
\* leaves the event's id out of the dedup set, and the next time the event
\* is handled while recent a new dispatch is attempted.
C2_FailedDispatchLeavesUnseen ==
    /\ \A k \in DOMAIN last.sends :
          last.sends[k].outcome \in {"error", "raise"}
              => last.sends[k].event_id \notin prior_event_ids
    /\ (last.op \in {"comment", "change"} /\ last.recent = "yes" /\ last.sends = <<>>
        /\ last.raised = NoException)
          => attempts[last.id] = delivered[last.id]

C4_EmptyChangeMarkedNotSent ==
    \A h \in Entries :
        Retained(h.items) = <<>> =>
            /\ attempts[h.id] = 0
            /\ (last.op = "change" /\ last.id = h.id /\ last.recent = "yes")
                  => (h.id \in prior_event_ids /\ last.sends = <<>>)

\* A recent, unseen change with only ignored items has just been handled.
C4_Witness ==
    /\ last.op = "change"
    /\ last.id = h22.id
    /\ last.recent = "yes"
    /\ ~last.seen
    /\ Retained(h22.items) = <<>>

\* C5: the high-water mark only moves to a greater key (string order), and
\* the check of an issue whose key is not greater than the mark emits no
\* NewIssue event.
C5_MarkOnlyAdvances ==
    [][ /\ last_new_ticket' # last_new_ticket
            => StrGreater(last_new_ticket', last_new_ticket)
        /\ (pc = "new_ticket" /\ ~StrGreater(issue.key, last_new_ticket))
            => (~last'.emitted /\ last'.sends = <<>>) ]_vars

\* ARROW-3, with no changelog, is checked while the mark is ARROW-5: it is
\* skipped and the mark stays.
C5_Witness ==
    /\ last.op = "new_ticket"
    /\ last.id = 101
    /\ ~last.emitted
    /\ last_new_ticket = <<5>>

\* C6: the new-issue check emits a NewIssue event exactly when the issue
\* has no changelog entry and its key is greater than the mark; the mark
\* then moves to that key whether or not the dispatch succeeds; and no
\* issue gets more than one NewIssue dispatch attempt in a run.
C6_NewIssueOnceAtMost ==
    /\ [](\A e \in IssueIds : attempts[e] <= 1)
    /\ [][ pc = "new_ticket" =>
             LET fresh == /\ Len(issue.changelog.histories) = 0
                          /\ StrGreater(issue.key, last_new_ticket)
             IN /\ last'.emitted <=> fresh
                /\ last_new_ticket' = IF fresh THEN issue.key ELSE last_new_ticket
                /\ last'.sends # <<>> => fresh ]_vars

\* An issue whose NewIssue dispatch failed is checked again: nothing is emitted, though its id is not in the dedup set.
C6_Witness ==
    /\ last.op = "new_ticket"
    /\ ~last.emitted
    /\ last.id \notin prior_event_ids
    /\ attempts[last.id] = 1
    /\ delivered[last.id] = 0

\* C7: a failed tracker request, the search or the comment request of an
\* issue, never makes an exception leave process_latest.
C7_FetchFailureContained ==
    ~(last.op \in {"fetch", "get_comments"} /\ last.raised # NoException)

\* C8: a comment or changelog entry with a malformed timestamp is skipped
\* (not dispatched, not marked seen) and the pass goes on.
C8_MalformedTimestampSkipped ==
    last.recent = "malformed" =>
        /\ last.sends = <<>>
        /\ last.id \notin prior_event_ids
        /\ last.raised = NoException
        /\ exception = NoException

\* C9: the id in the footer of every message among the last
\* OLD_MESSAGES_LOOKBACK messages of the stream is in the dedup set from
\* startup on, and is never dispatched again.
C9_ReplayRecoversFooters ==
    \A k \in DOMAIN get_messages(history, OLD_MESSAGES_LOOKBACK) :
        LET found == findall(get_messages(history, OLD_MESSAGES_LOOKBACK)[k])
        IN found # <<>> =>
              /\ found[Len(found)] \in prior_event_ids
              /\ attempts[found[Len(found)]] = 0

\* C10: a comment or changelog entry whose timestamp is outside the window
\* is skipped: nothing is dispatched for it, maybe_set_in_progress is not
\* called and the dedup set stays as it was.
C10_NotRecentSkipped ==
    [][ OutsideWindow =>
          /\ prior_event_ids' = prior_event_ids
          /\ attempts' = attempts
          /\ last'.sends = <<>>
          /\ last'.side = 0
          /\ last'.id = CurrentId ]_vars

\* A change with only ignored items is handled outside the window: it is
\* not marked seen.
C10_Witness ==
    /\ last.op = "change"
    /\ last.id = h22.id
    /\ last.recent = "no"
    /\ h22.id \notin prior_event_ids

\* The lines the retained items of a change are rendered as, in item order.
RetainedLines(items) == [k \in 1..Len(Retained(items)) |-> Line(Retained(items)[k])]

\* C11: when maybe_set_in_progress is called for a change and fails, the
\* failure does not leave send_ticket_change_event: the change is rendered
\* with all its retained lines and its message is handed to send_message.
C11_SideEffectFailureContained ==
    \A h \in Entries :
        (last.op = "change" /\ last.id = h.id /\ last.side > 0) =>
            /\ last.raised # "JIRAError"
            /\ last.lines = RetainedLines(h.items)
            /\ last.sends # <<>>

\* C12: a pass that an exception ended has changed nothing: the dedup set,
\* the high-water mark and the messages delivered are as they were when the
\* pass began.
C12_FailedPassIsNoOp == (pc = "done" /\ exception # NoException) => ~pass_changed

\* C13: no step removes an id from the dedup set, and handling an event
\* whose id is in the set leaves the set as it is.
C13_DedupSetMonotonic ==
    [][ /\ prior_event_ids \subseteq prior_event_ids'
        /\ (last'.op \in Handled /\ last'.seen) => prior_event_ids' = prior_event_ids ]_vars

\* A change dropped as empty in an earlier pass is met again, recent, and
\* its id is still in the set.
C13_Witness ==
    /\ last.op = "change"
    /\ last.id = h22.id
    /\ last.recent = "yes"
    /\ last.seen
    /\ h22.id \in prior_event_ids
    /\ Cardinality(prior_event_ids) > 1

\* The comments of the model, and the timestamp _is_recent_event is given
\* for a comment ('updated') or a changelog entry ('created').
Comments == {c11, c12}
EventStamp(id) ==
    IF \E c \in Comments : c.id = id
    THEN (CHOOSE c \in Comments : c.id = id).updated
    ELSE (CHOOSE h \in Entries : h.id = id).created

\* C14: an event is recent exactly when the whole time elapsed since its
\* timestamp, days included, is less than the window: one second less than
\* the window is recent, one second more is not, and a day and a hundred
\* seconds is not.
C14_RecentIffElapsedWithinWindow ==
    /\ _is_recent_event(CHANGE_LOOKBACK_SECONDS - 1, Stamp(0)).value
    /\ ~_is_recent_event(CHANGE_LOOKBACK_SECONDS + 1, Stamp(0)).value
    /\ ~_is_recent_event(SecondsPerDay + 100, Stamp(0)).value
    /\ (last.op \in {"comment", "change"} /\ EventStamp(last.id).wellformed)
          => (last.recent = "yes"
                <=> now - EventStamp(last.id).secs < CHANGE_LOOKBACK_SECONDS)

\* A comment written more than a day ago, with less than the window left
\* over once the whole days are taken out, is found not recent.
C14_Witness ==
    /\ last.op = "comment"
    /\ last.id = c11.id
    /\ now - c11.updated.secs > SecondsPerDay
    /\ (now - c11.updated.secs) % SecondsPerDay < CHANGE_LOOKBACK_SECONDS
    /\ last.recent = "no"

\* C15: the lines built for a change are those of its items whose field is
\* not in the ignore-set, one each and in item order; a to-value that is
\* absent or empty is replaced by Unresolved (resolution), (no labels)
\* (labels) or (empty); the line has no from-part exactly when the
\* from-value is absent; and no line is built exactly when every item is
\* ignored.
C15_ProjectionOfRetainedItems ==
    \A h \in Entries :
        (/\ last.op = "change" /\ last.id = h.id /\ last.recent = "yes"
         /\ ~last.seen /\ last.raised # "JIRAError") =>
            /\ Len(last.lines) = Len(Retained(h.items))
            /\ \A k \in DOMAIN last.lines :
                  LET item == Retained(h.items)[k]
                      line == last.lines[k]
                  IN /\ line.field = item.field
                     /\ line.to = IF item.toString \notin {None, ""} THEN item.toString
                                  ELSE IF item.field = "resolution" THEN "Unresolved"
                                  ELSE IF item.field = "labels" THEN "(no labels)"
                                  ELSE "(empty)"
                     /\ line.fmt = IF item.fromString = None THEN "to" ELSE "from_to"
                     /\ line.from = item.fromString
            /\ last.lines = <<>>
                  <=> \A k \in DOMAIN h.items : h.items[k].field \in CHANGE_IGNORED_FIELDS
            /\ h = h23 =>
                  last.lines =
                    << [fmt |-> "from_to", field |-> "status", from |-> "Open",
                        to |-> "In Progress"],
                       [fmt |-> "to", field |-> "labels", from |-> None, to |-> PRLabel],
                       [fmt |-> "from_to", field |-> "resolution", from |-> "Fixed",
                        to |-> "Unresolved"],
                       [fmt |-> "from_to", field |-> "assignee", from |-> "Bob",
                        to |-> "(empty)"],
                       [fmt |-> "from_to", field |-> "labels", from |-> PRLabel,
                        to |-> "(no labels)"] >>

\* The change with six items, one of them ignored, has been projected and
\* sent.
C15_Witness ==
    /\ last.op = "change"
    /\ last.id = h23.id
    /\ last.recent = "yes"
    /\ ~last.seen
    /\ last.raised = NoException
    /\ Len(last.lines) = Len(h23.items) - 1
    /\ last.sends # <<>>

\* The issue documents an event id belongs to: the issue itself, or the
\* issue whose comment or changelog entry it is.
EventIssues(id) ==
    {x \in Issues :
        \/ x.id = id
        \/ \E k \in DOMAIN x.changelog.histories : x.changelog.histories[k].id = id
        \/ /\ ~x.comment_fetch.raised
           /\ \E k \in DOMAIN x.comment_fetch.json.comments :
                 x.comment_fetch.json.comments[k].id = id}

\* C16: the topic of every message handed to send_message, for a new
\* issue, a comment or a change, is made of the key and the title of the
\* issue the event belongs to.
C16_TopicIsKeyAndTitle ==
    \A k \in DOMAIN last.sends :
        \E x \in EventIssues(last.sends[k].event_id) :
            /\ last.sends[k].topic.key = x.key
            /\ last.sends[k].topic.title = x.fields.summary

\* ARROW-5 is announced after one of its comments was sent: two kinds of
\* message for one issue.
C16_Witness ==
    /\ last.op = "new_ticket"
    /\ last.id = 100
    /\ last.sends # <<>>
    /\ last.sends[1].topic.key = <<5>>
    /\ attempts[c11.id] = 1

\* C17: when a comment of an issue is dispatched in a pass in which the
\* issue is new (no changelog entry, key above the mark, id not seen), the
\* issue's NewIssue message has been dispatched before it.
C17_NewIssueBeforeComments ==
    (/\ pc \in {"comments", "new_ticket"}
     /\ last.op = "comment"
     /\ last.sends # <<>>
     /\ Len(issue.changelog.histories) = 0
     /\ StrGreater(issue.key, last_new_ticket)
     /\ issue.id \notin prior_event_ids) => attempts[issue.id] > 0

\* maybe_set_in_progress was called for a change all of whose items the
\* ignore-set drops.
SideEffectForEmptyChange ==
    \E h \in Entries : Retained(h.items) = <<>> /\ h.id \in side_calls

C19_NewIssueDispatchAttempted ==
    (last.op = "new_ticket" /\ last.emitted /\ ~last.seen) =>
        (last.sends # <<>> /\ attempts[last.id] > 0)

\* C20: maybe_set_in_progress is called only while a recent change whose
\* id is not in the dedup set is handled; handling a change whose id is in
\* the set calls nothing.
C20_SideEffectOnlyForUnseenRecentChange ==
    /\ [](last.side > 0 => (last.op = "change" /\ last.recent = "yes" /\ ~last.seen))
    /\ [][ (pc = "changes" /\ CurrentId \in prior_event_ids) =>
             (last'.side = 0 /\ side_calls' = side_calls) ]_vars

\* The change that triggered the side effect and was sent is met again in
\* a later pass, recent, and is skipped.
C20_Witness ==
    /\ last.op = "change"
    /\ last.id = h23.id
    /\ last.recent = "yes"
    /\ last.seen
    /\ last.side = 0
    /\ h23.id \in side_calls
    /\ delivered[h23.id] = 1

====
